---------------------------- MODULE Spec2Model ----------------------------
(***************************************************************************)
(* Orchestration core of UpGradeAgent.                                     *)
(*                                                                         *)
(*   Spec      the five-node LangGraph workflow (src/graph/builder.py):    *)
(*             conversation_analyzer, information_gatherer,                *)
(*             confirmation_handler, tool_executor, response_generator,    *)
(*             with the routing functions of src/nodes/*.py on its edges.  *)
(*             One action per node visit: the node body, the merge of the  *)
(*             returned update into AgentState, and the conditional edge.  *)
(*   SpecLoop  the iterative tool-calling loop                             *)
(*             (_execute_iterative_tool_calls) of the gatherer, of the     *)
(*             response generator and of the single-stage intelligent      *)
(*             agent, one action per loop iteration.                       *)
(*                                                                         *)
(* The language model and the remote service are the environment: every    *)
(* model response and every remote outcome is a nondeterministic choice.   *)
(***************************************************************************)
EXTENDS Integers, Sequences, FiniteSets, TLC

VARIABLES
    state,              \* AgentState (src/graph/state.py)
    node,               \* node the graph runs next; "END" = turn finished
    prev,               \* node that ran last (history)
    actions_set,        \* number of set_action_needed calls so far (history)
    faults,             \* failures injected by the environment so far (history)
    input_since_prompt, \* a user input arrived after the latest prompt (history)
    uc_after_prompt,    \* user_confirmed was written while analysing such an input (history)
    denied,             \* the pending prompt was answered with a denial (history)
    unclear,            \* the latest analysis classified a reply to the prompt as unclear (history)
    prompt_for,         \* action and params the latest prompt was generated for (history)
    last_remote,        \* latest call sent to the remote service, with its context (history)
    kind,               \* SpecLoop: which node's loop runs
    conversation,       \* SpecLoop: local variable conversation
    iteration,          \* SpecLoop: local variable iteration
    llm_calls,          \* SpecLoop: model invocations made by the loop (history)
    loop_pc,            \* SpecLoop: "loop" | "returned"
    loop_ret,           \* SpecLoop: value returned by the loop
    op,                 \* SpecTools: executor tool under call, "create" | "update"
    tool_params,        \* SpecTools: the tool's action_params argument
    stored,             \* SpecTools: the experiment held by the remote service
    base_request,       \* SpecTools: update_experiment's local base_request
    request,            \* SpecTools: request object built by the latest call
    tool_pc,            \* SpecTools: "ready" | "sent" | "rejected"
    api_calls,          \* SpecTools: create/update requests sent to the service
    uuids,              \* SpecTools: ids handed out by uuid4 so far
    first_response,     \* SpecVisit: the response to the node's own model call
    fallback_calls,     \* SpecVisit: tool calls run by the response fallback (history)
    state_ref,          \* SpecSessions: decorators._state_ref, as the session it refers to
    session_pc,         \* SpecSessions: per session "idle" | "entered" | "awaiting"
    session_tool,       \* SpecSessions: per session, the field its awaited tool writes
    session_calls,      \* SpecSessions: per session, tool calls made so far (history)
    session_state,      \* SpecSessions: per session, the writes its state received
    _tools,             \* SpecRegistry: ToolRegistry._tools, node type -> registered names
    merged              \* SpecRegistry: the merged views computed last, with the registry they were computed from

vars == <<state, node, prev, actions_set, faults, input_since_prompt, uc_after_prompt,
          denied, unclear, prompt_for, last_remote,
          kind, conversation, iteration, llm_calls, loop_pc, loop_ret,
          op, tool_params, stored, base_request, request, tool_pc, api_calls, uuids,
          first_response, fallback_calls,
          state_ref, session_pc, session_tool, session_calls, session_state,
          _tools, merged>>

graph_vars == <<node, prev, actions_set, faults, input_since_prompt, uc_after_prompt,
                denied, unclear, prompt_for>>

loop_vars == <<kind, conversation, iteration, llm_calls, loop_pc, loop_ret>>

tool_vars == <<op, tool_params, stored, base_request, request, tool_pc, api_calls, uuids>>

visit_vars == <<first_response, fallback_calls>>

session_vars == <<state_ref, session_pc, session_tool, session_calls, session_state>>

registry_vars == <<_tools, merged>>

---------------------------------------------------------------------------
(* Bounds of the model *)

MaxAnalyzerCalls == 1   \* tool calls in one analyzer model response
MaxGathererCalls == 1   \* state-changing tool calls in one gatherer visit
MaxActions == 2         \* set_action_needed calls the model makes per session
MaxFaults == 1          \* model-call, tool-call and remote failures per session

---------------------------------------------------------------------------
(* Values *)

None == "None"
Yes == "True"       \* Python True in an Optional[bool] field
No == "False"       \* Python False in an Optional[bool] field
NoMessage == <<>>   \* confirmation_message = None

Nodes == {"conversation_analyzer", "information_gatherer", "confirmation_handler",
          "tool_executor", "response_generator"}

\* action names the gatherer can set; visit_decision_point is accepted by
\* set_action_needed but has no executor tool
ActionNames == {"delete_experiment", "update_experiment_status", "visit_decision_point"}

ParamNames == {"experiment_id", "status"}

\* executor tools and their required parameters
ExecutorTools == {"delete_experiment", "update_experiment_status"}

RequiredParams(action) ==
    IF action = "delete_experiment" THEN {"experiment_id"}
    ELSE IF action = "update_experiment_status" THEN {"experiment_id", "status"}
    ELSE {}

\* outcomes of a remote call: success, or a failure whose message the
\* executor classifies
RemoteOutcomes == {"ok", "404 not found"}

create_initial_state ==
    [ current_state         |-> "ANALYZING",
      intent_type           |-> None,
      action_needed         |-> None,
      action_params         |-> {},
      missing_params        |-> <<>>,
      gathered_info         |-> {},
      needs_confirmation    |-> FALSE,
      confirmation_message  |-> NoMessage,
      user_confirmed        |-> No,
      execution_log         |-> <<>>,
      errors                |-> {},
      final_response        |-> None,
      conversation_complete |-> FALSE ]

NoRemote == [action |-> None, needs_confirmation |-> FALSE,
             prompted |-> None, user_confirmed |-> None, via |-> None]

NoPrompt == [action |-> None, params |-> {}]

\* sequences over S of length at most n
RECURSIVE SeqsUpTo(_, _)
SeqsUpTo(S, n) ==
    IF n = 0 THEN {<<>>}
    ELSE LET shorter == SeqsUpTo(S, n - 1)
         IN  shorter \cup { Append(q, x) : q \in {r \in shorter : Len(r) = n - 1}, x \in S }

---------------------------------------------------------------------------
(* conversation_analyzer: src/nodes/analyzer.py, src/tools/analyzer *)

\* one tool call of the analyzer's model response; name "bogus" is a tool the
\* analyzer registry does not hold
AnalyzerCalls ==
    [ name : {"analyze_user_request"}, intent_type : {"direct_answer", "needs_info"},
      user_confirmed : {Yes, No, None} ]
    \cup
    [ name : {"bogus"}, intent_type : {"direct_answer"}, user_confirmed : {None} ]

AnalyzerResponses ==
    [ raises : {TRUE}, tool_calls : {<<>>} ]
    \cup
    [ raises : {FALSE}, tool_calls : SeqsUpTo(AnalyzerCalls, MaxAnalyzerCalls) ]

\* the tool body: writes into the global state reference
analyze_user_request(s, call) ==
    [ s EXCEPT !.intent_type = call.intent_type,
               !.user_confirmed = IF call.user_confirmed # None
                                  THEN call.user_confirmed ELSE @ ]

RECURSIVE ApplyAnalyzerCalls(_, _)
ApplyAnalyzerCalls(s, calls) ==
    IF calls = <<>> THEN s
    ELSE ApplyAnalyzerCalls(analyze_user_request(s, Head(calls)), Tail(calls))

\* _process_tool_calls returned an error update
AnalyzerCallsFail(calls) ==
    \E i \in 1..Len(calls) : calls[i].name = "bogus"

\* variant: the node does not overwrite current_state
analyzer_node_keeps_stage(s, resp) ==
    IF resp.raises \/ AnalyzerCallsFail(resp.tool_calls)
    THEN [ s EXCEPT !.errors = @ \cup {"analyzer"} ]
    ELSE IF resp.tool_calls = <<>>
    THEN [ s EXCEPT !.intent_type = "direct_answer" ]
    ELSE LET ref == ApplyAnalyzerCalls(s, resp.tool_calls)
         IN  [ s EXCEPT !.intent_type = ref.intent_type,
                        !.user_confirmed = ref.user_confirmed ]

analyzer_node(s, resp) ==
    IF resp.raises \/ AnalyzerCallsFail(resp.tool_calls)
    THEN [ s EXCEPT !.current_state = "RESPONDING", !.errors = @ \cup {"analyzer"} ]
    ELSE IF resp.tool_calls = <<>>
    THEN [ s EXCEPT !.current_state = "RESPONDING", !.intent_type = "direct_answer" ]
    ELSE LET ref == ApplyAnalyzerCalls(s, resp.tool_calls)
         IN  [ s EXCEPT !.current_state = IF ref.intent_type = "needs_info"
                                          THEN "GATHERING_INFO" ELSE "RESPONDING",
                        !.intent_type = ref.intent_type,
                        !.user_confirmed = ref.user_confirmed ]

\* variant: the intent classification is consulted before the confirmation answer
analyzer_routing_intent_first(s) ==
    IF s.intent_type = "needs_info" THEN "information_gatherer"
    ELSE IF s.needs_confirmation /\ s.user_confirmed = Yes THEN "tool_executor"
    ELSE "response_generator"

analyzer_routing(s) ==
    IF s.needs_confirmation /\ s.user_confirmed # None
    THEN IF s.user_confirmed = Yes THEN "tool_executor" ELSE "response_generator"
    ELSE IF s.execution_log # <<>> /\ s.current_state = "ANALYZING"
    THEN "response_generator"
    ELSE IF s.intent_type = "direct_answer" THEN "response_generator"
    ELSE IF s.intent_type = "needs_info" THEN "information_gatherer"
    ELSE "response_generator"

\* the response made analyze_user_request record a confirmation answer
WroteAnswer(resp) ==
    /\ ~resp.raises
    /\ ~AnalyzerCallsFail(resp.tool_calls)
    /\ \E i \in 1..Len(resp.tool_calls) : resp.tool_calls[i].user_confirmed # None

AnalyzerFault(resp) == resp.raises \/ AnalyzerCallsFail(resp.tool_calls)

\* the model was shown the pending prompt (_check_confirmation_context) and
\* classified the reply as unclear: analyze_user_request(user_confirmed=None)
ClassifiedUnclear(s, resp) ==
    /\ s.needs_confirmation
    /\ s.confirmation_message # NoMessage
    /\ ~AnalyzerFault(resp)
    /\ resp.tool_calls # <<>>
    /\ \A i \in 1..Len(resp.tool_calls) : resp.tool_calls[i].user_confirmed = None

Analyzer ==
    /\ node = "conversation_analyzer"
    /\ \E resp \in AnalyzerResponses :
         LET s == analyzer_node(state, resp)
         IN  /\ AnalyzerFault(resp) => faults < MaxFaults
             /\ faults' = IF AnalyzerFault(resp) THEN faults + 1 ELSE faults
             /\ state' = s
             /\ node' = analyzer_routing(s)
             /\ uc_after_prompt' = IF WroteAnswer(resp) THEN input_since_prompt
                                   ELSE uc_after_prompt
             /\ denied' = IF WroteAnswer(resp) /\ s.user_confirmed = No
                             /\ state.needs_confirmation
                          THEN TRUE ELSE denied
             /\ unclear' = (input_since_prompt /\ ClassifiedUnclear(state, resp))
    /\ prev' = "conversation_analyzer"
    /\ UNCHANGED <<actions_set, input_since_prompt, prompt_for, last_remote>>
    /\ UNCHANGED loop_vars
    /\ UNCHANGED tool_vars
    /\ UNCHANGED visit_vars
    /\ UNCHANGED session_vars
    /\ UNCHANGED registry_vars

---------------------------------------------------------------------------
(* information_gatherer: src/nodes/gatherer.py, src/tools/gatherer *)

\* state-changing gatherer tools, with the argument values the model passes
GathererCalls ==
    [ name : {"set_action_needed"}, action : ActionNames,
      params : {{}}, missing : {<<>>}, key : {None} ]
    \cup [ name : {"set_action_params"}, action : {None},
           params : SUBSET ParamNames, missing : {<<>>}, key : {None} ]
    \cup [ name : {"set_missing_params"}, action : {None},
           params : {{}}, missing : {<<>>, <<"experiment_id">>}, key : {None} ]
    \cup [ name : {"update_action_params"}, action : {None},
           params : {{}}, missing : {<<>>}, key : ParamNames ]
    \cup [ name : {"add_error"}, action : {None},
           params : {{}}, missing : {<<>>}, key : {"validation"} ]
    \cup [ name : {"check_upgrade_health"}, action : {None},
           params : {{}}, missing : {<<>>}, key : {"upgrade_health"} ]

set_action_needed(s, action) == [ s EXCEPT !.action_needed = action ]

set_action_params(s, action_params) == [ s EXCEPT !.action_params = action_params ]

set_missing_params(s, missing_params) == [ s EXCEPT !.missing_params = missing_params ]

update_action_params(s, key) == [ s EXCEPT !.action_params = @ \cup {key} ]

add_error(s, error_type) == [ s EXCEPT !.errors = @ \cup {error_type} ]

\* @auto_store(key) around a lookup tool
auto_store(s, key) == [ s EXCEPT !.gathered_info = @ \cup {key} ]

GathererTool(s, call) ==
    CASE call.name = "set_action_needed"    -> set_action_needed(s, call.action)
      [] call.name = "set_action_params"    -> set_action_params(s, call.params)
      [] call.name = "set_missing_params"   -> set_missing_params(s, call.missing)
      [] call.name = "update_action_params" -> update_action_params(s, call.key)
      [] call.name = "add_error"            -> add_error(s, call.key)
      [] OTHER                              -> auto_store(s, call.key)

RECURSIVE ApplyGathererCalls(_, _)
ApplyGathererCalls(s, calls) ==
    IF calls = <<>> THEN s
    ELSE ApplyGathererCalls(GathererTool(s, Head(calls)), Tail(calls))

\* what the model did during one gatherer visit: the first invocation raised,
\* or it answered without tool calls, or the iterative loop ran these calls
GathererRuns ==
    [ outcome : {"raises", "no_tool_calls"}, calls : {<<>>} ]
    \cup
    [ outcome : {"tools"}, calls : SeqsUpTo(GathererCalls, MaxGathererCalls) ]

\* variant: a pending action is dropped when the model calls no tool
gatherer_node_drops_action(s, run) ==
    IF run.outcome = "raises"
    THEN [ s EXCEPT !.current_state = "RESPONDING", !.errors = @ \cup {"gatherer"} ]
    ELSE IF run.outcome = "no_tool_calls"
    THEN [ s EXCEPT !.current_state = "RESPONDING", !.action_needed = None ]
    ELSE LET ref == ApplyGathererCalls(s, run.calls)
         IN  [ ref EXCEPT !.current_state = IF ref.action_needed # None
                                            THEN "CONFIRMING" ELSE "RESPONDING" ]

gatherer_node(s, run) ==
    IF run.outcome = "raises"
    THEN [ s EXCEPT !.current_state = "RESPONDING", !.errors = @ \cup {"gatherer"} ]
    ELSE IF run.outcome = "no_tool_calls"
    THEN [ s EXCEPT !.current_state = "RESPONDING" ]
    ELSE LET ref == ApplyGathererCalls(s, run.calls)
         IN  [ ref EXCEPT !.current_state = IF ref.action_needed # None
                                            THEN "CONFIRMING" ELSE "RESPONDING" ]

\* variant: recorded errors are looked at before the ready action
gatherer_routing_errors_first(s) ==
    IF s.missing_params # <<>> \/ s.errors # {} THEN "response_generator"
    ELSE IF s.action_needed # None THEN "confirmation_handler"
    ELSE "response_generator"

gatherer_routing(s) ==
    IF s.action_needed # None /\ s.missing_params = <<>> THEN "confirmation_handler"
    ELSE IF s.missing_params # <<>> \/ s.errors # {} THEN "response_generator"
    ELSE IF s.gathered_info # {} THEN "response_generator"
    ELSE "response_generator"

SetActionCalls(calls) ==
    Cardinality({ i \in 1..Len(calls) : calls[i].name = "set_action_needed" })

Gatherer ==
    /\ node = "information_gatherer"
    /\ \E run \in GathererRuns :
         /\ actions_set + SetActionCalls(run.calls) <= MaxActions
         /\ actions_set' = actions_set + SetActionCalls(run.calls)
         /\ run.outcome = "raises" => faults < MaxFaults
         /\ faults' = IF run.outcome = "raises" THEN faults + 1 ELSE faults
         /\ LET s == gatherer_node(state, run)
            IN  /\ state' = s
                /\ node' = gatherer_routing(s)
    /\ prev' = "information_gatherer"
    /\ UNCHANGED <<input_since_prompt, uc_after_prompt, denied, unclear, prompt_for,
                   last_remote>>
    /\ UNCHANGED loop_vars
    /\ UNCHANGED tool_vars
    /\ UNCHANGED visit_vars
    /\ UNCHANGED session_vars
    /\ UNCHANGED registry_vars

---------------------------------------------------------------------------
(* confirmation_handler: src/nodes/confirmation.py *)

\* the message text, as the parts of it that depend on the action and params
_generate_confirmation_message(action, params) ==
    IF action = "delete_experiment"
    THEN << "PERMANENTLY DELETE experiment? This cannot be undone!",
            IF "experiment_id" \in params THEN "ID" ELSE "Unknown" >>
    ELSE IF action = "update_experiment_status"
    THEN << "Change experiment status?",
            IF "experiment_id" \in params THEN "ID" ELSE "Unknown",
            IF "status" \in params THEN "status" ELSE "unknown" >>
    ELSE << "Execute action with the provided parameters?", action >>

_is_destructive_action(action) == action \in {"delete_experiment"}

\* variant: the prompt is produced whether or not an action is pending
confirmation_handler_prompts_without_action(s) ==
    [ s EXCEPT !.current_state = "CONFIRMING",
               !.needs_confirmation = TRUE,
               !.confirmation_message =
                   _generate_confirmation_message(s.action_needed, s.action_params) ]

confirmation_handler(s) ==
    IF s.action_needed = None
    THEN [ s EXCEPT !.current_state = "RESPONDING", !.errors = @ \cup {"confirmation"} ]
    ELSE [ s EXCEPT !.current_state = "CONFIRMING",
                    !.needs_confirmation = TRUE,
                    !.confirmation_message =
                        _generate_confirmation_message(s.action_needed, s.action_params) ]

\* variant: an answer already on record skips the prompt
confirmation_routing_skips_prompt(s) ==
    IF s.user_confirmed = Yes THEN "tool_executor" ELSE "response_generator"

confirmation_routing(s) == "response_generator"

Confirmation ==
    /\ node = "confirmation_handler"
    /\ LET s == confirmation_handler(state)
       IN  /\ state' = s
           /\ node' = confirmation_routing(s)
           /\ IF state.action_needed # None
              THEN /\ prompt_for' = [action |-> state.action_needed,
                                     params |-> state.action_params]
                   /\ input_since_prompt' = FALSE
                   /\ uc_after_prompt' = FALSE
                   /\ denied' = FALSE
                   /\ unclear' = FALSE
              ELSE UNCHANGED <<prompt_for, input_since_prompt, uc_after_prompt, denied,
                               unclear>>
    /\ prev' = "confirmation_handler"
    /\ UNCHANGED <<actions_set, faults, last_remote>>
    /\ UNCHANGED loop_vars
    /\ UNCHANGED tool_vars
    /\ UNCHANGED visit_vars
    /\ UNCHANGED session_vars
    /\ UNCHANGED registry_vars

---------------------------------------------------------------------------
(* tool_executor: src/nodes/executor.py, src/tools/executor/action_tools.py *)

_log_execution(s, action, success) ==
    [ s EXCEPT !.execution_log = Append(@, [action |-> action, success |-> success]) ]

\* variant: one required key present is enough
_validate_required_params_any_key(params, required_keys) ==
    required_keys = {} \/ required_keys \cap params # {}

_validate_required_params(params, required_keys) == required_keys \subseteq params

\* error_type chosen from the exception message (executor.py 122-132)
ErrorType(message) ==
    IF message \in {"authentication failed", "unauthorized"} THEN "auth"
    ELSE IF message = "404 not found" THEN "not_found"
    ELSE IF message \in {"invalid value", "Missing required parameters"} THEN "validation"
    ELSE IF message = "api request failed" THEN "api"
    ELSE "unknown"

\* outcome of _execute_action: "ok" or the message of the exception raised
ExecuteOutcome(action, params, remote) ==
    IF action \notin ExecutorTools THEN "Unknown action"
    ELSE IF ~_validate_required_params(params, RequiredParams(action))
    THEN "Missing required parameters"
    ELSE remote

\* the action tool reached the remote-service call
CallsRemote(action, params) ==
    action \in ExecutorTools /\ _validate_required_params(params, RequiredParams(action))

\* variant: a failed action stays pending, with its confirmation
tool_executor_keeps_pending_on_failure(s, remote) ==
    IF s.action_needed = None
    THEN [ s EXCEPT !.current_state = "RESPONDING", !.errors = @ \cup {"executor"} ]
    ELSE LET outcome == ExecuteOutcome(s.action_needed, s.action_params, remote)
             logged  == IF s.action_needed \in ExecutorTools
                        THEN _log_execution(s, s.action_needed, outcome = "ok")
                        ELSE s
         IN  IF outcome = "ok"
             THEN [ logged EXCEPT !.current_state = "ANALYZING",
                                  !.action_needed = None,
                                  !.action_params = {},
                                  !.needs_confirmation = FALSE,
                                  !.confirmation_message = NoMessage,
                                  !.user_confirmed = None,
                                  !.gathered_info = @ \cup {"last_execution_result"} ]
             ELSE [ logged EXCEPT !.current_state = "RESPONDING",
                                  !.errors = @ \cup {ErrorType(outcome)} ]

\* variant: an action name without an executor tool is dropped silently
tool_executor_drops_unknown_action(s, remote) ==
    IF s.action_needed = None
    THEN [ s EXCEPT !.current_state = "RESPONDING", !.errors = @ \cup {"executor"} ]
    ELSE LET outcome == ExecuteOutcome(s.action_needed, s.action_params, remote)
             logged  == IF s.action_needed \in ExecutorTools
                        THEN _log_execution(s, s.action_needed, outcome = "ok")
                        ELSE s
         IN  IF outcome = "ok" \/ outcome = "Unknown action"
             THEN [ logged EXCEPT !.current_state = "ANALYZING",
                                  !.action_needed = None,
                                  !.action_params = {},
                                  !.needs_confirmation = FALSE,
                                  !.confirmation_message = NoMessage,
                                  !.user_confirmed = None,
                                  !.gathered_info = @ \cup {"last_execution_result"} ]
             ELSE [ logged EXCEPT !.current_state = "RESPONDING",
                                  !.errors = @ \cup {ErrorType(outcome)},
                                  !.action_needed = None,
                                  !.action_params = {},
                                  !.needs_confirmation = FALSE,
                                  !.confirmation_message = NoMessage,
                                  !.user_confirmed = None ]

tool_executor(s, remote) ==
    IF s.action_needed = None
    THEN [ s EXCEPT !.current_state = "RESPONDING", !.errors = @ \cup {"executor"} ]
    ELSE LET outcome == ExecuteOutcome(s.action_needed, s.action_params, remote)
             logged  == IF s.action_needed \in ExecutorTools
                        THEN _log_execution(s, s.action_needed, outcome = "ok")
                        ELSE s
         IN  IF outcome = "ok"
             THEN [ logged EXCEPT !.current_state = "ANALYZING",
                                  !.action_needed = None,
                                  !.action_params = {},
                                  !.needs_confirmation = FALSE,
                                  !.confirmation_message = NoMessage,
                                  !.user_confirmed = None,
                                  !.gathered_info = @ \cup {"last_execution_result"} ]
             ELSE [ logged EXCEPT !.current_state = "RESPONDING",
                                  !.errors = @ \cup {ErrorType(outcome)},
                                  !.action_needed = None,
                                  !.action_params = {},
                                  !.needs_confirmation = FALSE,
                                  !.confirmation_message = NoMessage,
                                  !.user_confirmed = None ]

\* variant: a failed execution is reported directly
executor_routing_reports_failure(s) ==
    IF s.current_state = "RESPONDING" THEN "response_generator"
    ELSE "conversation_analyzer"

executor_routing(s) == "conversation_analyzer"

\* what the remote service saw, with the confirmation state it was sent under
RemoteCall(s, action, via) ==
    [ action |-> action, needs_confirmation |-> s.needs_confirmation,
      prompted |-> prompt_for.action, user_confirmed |-> s.user_confirmed, via |-> via ]

Executor ==
    /\ node = "tool_executor"
    /\ \E remote \in RemoteOutcomes :
         LET s == tool_executor(state, remote)
         IN  /\ remote # "ok" => faults < MaxFaults
             /\ faults' = IF remote # "ok" THEN faults + 1 ELSE faults
             /\ state' = s
             /\ node' = executor_routing(s)
    /\ last_remote' = IF CallsRemote(state.action_needed, state.action_params)
                      THEN RemoteCall(state, state.action_needed, "tool_executor") ELSE last_remote
    /\ IF state.action_needed # None
       THEN /\ input_since_prompt' = FALSE
            /\ uc_after_prompt' = FALSE
            /\ denied' = FALSE
            /\ unclear' = FALSE
            /\ prompt_for' = NoPrompt
       ELSE UNCHANGED <<input_since_prompt, uc_after_prompt, denied, unclear, prompt_for>>
    /\ prev' = "tool_executor"
    /\ UNCHANGED actions_set
    /\ UNCHANGED loop_vars
    /\ UNCHANGED tool_vars
    /\ UNCHANGED visit_vars
    /\ UNCHANGED session_vars
    /\ UNCHANGED registry_vars

---------------------------------------------------------------------------
(* response_generator: src/nodes/response.py *)

\* variant: missing parameters do not keep the conversation open
conversation_complete_ignores_missing(s) ==
    LET should_not_complete == s.needs_confirmation /\ s.user_confirmed = None
    IN  IF should_not_complete THEN FALSE
        ELSE \/ s.intent_type = "direct_answer"
             \/ s.user_confirmed = No
             \/ s.execution_log # <<>> /\ s.errors = {}
             \/ s.errors # {}
             \/ s.intent_type = "needs_info" /\ s.action_needed = None

\* conversation_complete as computed at response.py 435-458
conversation_complete(s) ==
    LET should_not_complete ==
            \/ s.needs_confirmation /\ s.user_confirmed = None
            \/ s.missing_params # <<>>
    IN  IF should_not_complete THEN FALSE
        ELSE \/ s.intent_type = "direct_answer"
             \/ s.user_confirmed = No
             \/ s.execution_log # <<>> /\ s.errors = {}
             \/ s.errors # {} /\ s.missing_params = <<>>
             \/ s.intent_type = "needs_info" /\ s.action_needed = None
                /\ s.missing_params = <<>>

\* variant: a pending confirmation always keeps the conversation open
response_generator_node_pending_stays_open(s, raises) ==
    IF raises
    THEN [ s EXCEPT !.final_response = "apology",
                    !.conversation_complete = TRUE,
                    !.current_state = "RESPONDING",
                    !.errors = @ \cup {"response"} ]
    ELSE [ s EXCEPT !.final_response = "text",
                    !.conversation_complete = conversation_complete(s)
                                              /\ ~s.needs_confirmation,
                    !.current_state = "RESPONDING" ]

response_generator_node(s, raises) ==
    IF raises
    THEN [ s EXCEPT !.final_response = "apology",
                    !.conversation_complete = TRUE,
                    !.current_state = "RESPONDING",
                    !.errors = @ \cup {"response"} ]
    ELSE [ s EXCEPT !.final_response = "text",
                    !.conversation_complete = conversation_complete(s),
                    !.current_state = "RESPONDING" ]

\* variant: a turn that recorded errors is not ended
response_routing_continues_on_errors(s) ==
    IF s.conversation_complete /\ s.errors = {} THEN "END" ELSE "conversation_analyzer"

response_routing(s) ==
    IF s.conversation_complete THEN "END" ELSE "conversation_analyzer"

Response ==
    /\ node = "response_generator"
    /\ \E raises \in BOOLEAN :
         LET s == response_generator_node(state, raises)
         IN  /\ raises => faults < MaxFaults
             /\ faults' = IF raises THEN faults + 1 ELSE faults
             /\ state' = s
             /\ node' = response_routing(s)
    /\ prev' = "response_generator"
    /\ UNCHANGED <<actions_set, input_since_prompt, uc_after_prompt, denied, unclear,
                   prompt_for, last_remote>>
    /\ UNCHANGED loop_vars
    /\ UNCHANGED tool_vars
    /\ UNCHANGED visit_vars
    /\ UNCHANGED session_vars
    /\ UNCHANGED registry_vars

---------------------------------------------------------------------------
(* a turn: the caller invokes the graph with the next user input; the
   entry point is conversation_analyzer and AgentState is carried over *)

NewTurn ==
    /\ node = "END"
    /\ node' = "conversation_analyzer"
    /\ input_since_prompt' = state.needs_confirmation
    /\ UNCHANGED <<state, prev, actions_set, faults, uc_after_prompt, denied, unclear,
                   prompt_for, last_remote>>
    /\ UNCHANGED loop_vars
    /\ UNCHANGED tool_vars
    /\ UNCHANGED visit_vars
    /\ UNCHANGED session_vars
    /\ UNCHANGED registry_vars

LoopIdle ==
    /\ kind = None
    /\ conversation = <<>>
    /\ iteration = 0
    /\ llm_calls = 0
    /\ loop_pc = None
    /\ loop_ret = None

\* a model response before any model call was made
NoResponse == [ content |-> None, tool_calls |-> <<>> ]

VisitIdle ==
    /\ first_response = NoResponse
    /\ fallback_calls = <<>>

SessionsIdle ==
    /\ state_ref = None
    /\ session_pc = None
    /\ session_tool = None
    /\ session_calls = None
    /\ session_state = None

RegistryIdle ==
    /\ _tools = None
    /\ merged = None

ToolsIdle ==
    /\ op = None
    /\ tool_params = None
    /\ stored = None
    /\ base_request = None
    /\ request = None
    /\ tool_pc = None
    /\ api_calls = 0
    /\ uuids = 0

Init ==
    /\ state = create_initial_state
    /\ node = "conversation_analyzer"
    /\ prev = None
    /\ actions_set = 0
    /\ faults = 0
    /\ input_since_prompt = FALSE
    /\ uc_after_prompt = FALSE
    /\ denied = FALSE
    /\ unclear = FALSE
    /\ prompt_for = NoPrompt
    /\ last_remote = NoRemote
    /\ LoopIdle
    /\ ToolsIdle
    /\ VisitIdle
    /\ RegistryIdle
    /\ SessionsIdle

Next ==
    \/ Analyzer
    \/ Gatherer
    \/ Confirmation
    \/ Executor
    \/ Response
    \/ NewTurn

Spec == Init /\ [][Next]_vars

\* the compiled graph runs the selected node as long as there is one, and the
\* user keeps sending inputs
FairSpec == Spec /\ WF_vars(Next)

---------------------------------------------------------------------------
(* a node function called directly on a prepared AgentState, as the
   repository's node tests do (create_initial_state() followed by
   state.update({...})); the graph then runs on from that node *)

PreparedStates ==
    { [ create_initial_state EXCEPT
          !.intent_type          = intent,
          !.action_needed        = action,
          !.action_params        = params,
          !.missing_params       = missing,
          !.needs_confirmation   = pending,
          !.confirmation_message =
              IF pending /\ action # None
              THEN _generate_confirmation_message(action, params) ELSE NoMessage,
          !.user_confirmed       = answer,
          !.errors               = errs ] :
        intent \in {"direct_answer", "needs_info"},
        action \in {None, "delete_experiment", "visit_decision_point"},
        params \in {{}, {"experiment_id"}},
        missing \in {<<>>, <<"experiment_id">>},
        pending \in BOOLEAN,
        answer \in {Yes, No, None},
        errs \in {{}, {"validation"}} }

InitNodes ==
    /\ state \in PreparedStates
    /\ node \in Nodes
    /\ prev = None
    /\ actions_set = MaxActions
    /\ faults = 0
    /\ input_since_prompt = FALSE
    /\ uc_after_prompt = FALSE
    /\ denied = FALSE
    /\ unclear = FALSE
    /\ prompt_for = NoPrompt
    /\ last_remote = NoRemote
    /\ LoopIdle
    /\ ToolsIdle
    /\ VisitIdle
    /\ RegistryIdle
    /\ SessionsIdle

SpecNodes == InitNodes /\ [][Next]_vars

---------------------------------------------------------------------------
(* _execute_iterative_tool_calls: src/nodes/gatherer.py 188-278,
   src/nodes/response.py 227-344, src/nodes/intelligent_agent.py 186-301 *)

LoopKinds == {"gatherer", "response", "agent"}

\* default of the max_iterations parameter; every caller uses the default
max_iterations(k) == IF k = "agent" THEN 10 ELSE 3

\* tool_registry._tools, for the tools the model below proposes
ToolRegistry ==
    [ analyzer |-> {"analyze_user_request"},
      gatherer |-> {"check_upgrade_health", "set_action_needed"},
      executor |-> {"delete_experiment", "update_experiment_status"},
      response |-> {"get_execution_log"} ]

\* variant: every loop dispatches over the merged table of the agent
LoopTools_merged(k) ==
    ToolRegistry.response \cup ToolRegistry.analyzer
    \cup ToolRegistry.executor \cup ToolRegistry.gatherer

\* tools a loop can dispatch to
LoopTools(k) ==
    IF k = "gatherer" THEN ToolRegistry.gatherer
    ELSE IF k = "response" THEN ToolRegistry.response
    ELSE ToolRegistry.response \cup ToolRegistry.analyzer
         \cup ToolRegistry.executor \cup ToolRegistry.gatherer

Message(role, content, tool_calls, name, tool_call_id) ==
    [ role |-> role, content |-> content, tool_calls |-> tool_calls,
      name |-> name, tool_call_id |-> tool_call_id ]

\* messages passed to the loop: the system prompt and the user input
InitialMessages ==
    << Message("system", "prompt", <<>>, None, None),
       Message("human", "User input", <<>>, None, None) >>

ToolCall(name, id) == [ name |-> name, id |-> id ]

\* responses the model gives: a plain answer with or without text, or a
\* batch of tool calls
Proposals ==
    { [ content |-> "text", tool_calls |-> <<>> ],
      [ content |-> "",     tool_calls |-> <<>> ],
      [ content |-> "text", tool_calls |-> << ToolCall("delete_experiment", "a") >> ],
      [ content |-> "",     tool_calls |-> << ToolCall("bogus", "b"),
                                              ToolCall("check_upgrade_health", "c") >> ] }

ToolOutcomes == {"ok", "raises"}

\* variant: the name of the call is not looked up before the call is made
ToolResult_without_lookup(k, call, outcome) ==
    IF outcome = "raises" THEN "Tool failed" ELSE "tool result"

\* content of the ToolMessage for one call
ToolResult(k, call, outcome) ==
    IF call.name \notin LoopTools(k) THEN "Unknown tool"
    ELSE IF outcome = "raises" THEN "Tool failed"
    ELSE "tool result"

\* effect of one tool call on the global state reference
ToolEffect(k, s, call, outcome) ==
    IF call.name \notin LoopTools(k) THEN s
    ELSE IF call.name = "delete_experiment"
    THEN _log_execution(s, "delete_experiment", outcome = "ok")
    ELSE IF call.name = "check_upgrade_health"
    THEN IF outcome = "ok" THEN auto_store(s, "upgrade_health")
         ELSE [ s EXCEPT !.errors = @ \cup {"general"} ]
    ELSE s

RECURSIVE ToolMessages(_, _, _)
ToolMessages(k, calls, outcomes) ==
    IF calls = <<>> THEN <<>>
    ELSE << Message("tool", ToolResult(k, Head(calls), Head(outcomes)), <<>>,
                    Head(calls).name, Head(calls).id) >>
         \o ToolMessages(k, Tail(calls), Tail(outcomes))

RECURSIVE ToolEffects(_, _, _, _)
ToolEffects(k, s, calls, outcomes) ==
    IF calls = <<>> THEN s
    ELSE ToolEffects(k, ToolEffect(k, s, Head(calls), Head(outcomes)),
                     Tail(calls), Tail(outcomes))

\* variant: off-by-one while condition
LoopContinues_inclusive(i, max) == i <= max

\* the while condition
LoopContinues(i, max) == i < max

\* value returned when the model answers without tool calls
FinalAnswer(k, resp) ==
    IF k = "gatherer" THEN "True"
    ELSE IF k = "response"
    THEN IF resp.content # "" THEN resp.content ELSE "processed your request"
    ELSE resp.content

\* value returned when max_iterations is reached
_get_final_response_from_conversation(conv) ==
    IF conv # <<>> /\ conv[Len(conv)].role = "ai" /\ conv[Len(conv)].content # ""
    THEN conv[Len(conv)].content
    ELSE "processed through iterations"

ExhaustedAnswer(k, conv) ==
    IF k = "gatherer" THEN "True"
    ELSE IF k = "response" THEN _get_final_response_from_conversation(conv)
    ELSE IF conv # <<>> THEN conv[Len(conv)].content
    ELSE "could not complete"

Raised(calls, outcomes) ==
    Cardinality({ i \in 1..Len(calls) : outcomes[i] = "raises" })

\* the tool calls of a batch that reach the remote service
DeleteCalls(k, calls) ==
    { i \in 1..Len(calls) : calls[i].name = "delete_experiment"
                            /\ calls[i].name \in LoopTools(k) }

LoopIteration ==
    /\ loop_pc = "loop"
    /\ LoopContinues(iteration, max_iterations(kind))
    /\ iteration' = iteration + 1
    /\ llm_calls' = llm_calls + 1
    /\ \E resp \in Proposals :
         LET ai == Message("ai", resp.content, resp.tool_calls, None, None)
         IN  IF resp.tool_calls = <<>>
             THEN /\ conversation' = Append(conversation, ai)
                  /\ loop_pc' = "returned"
                  /\ loop_ret' = FinalAnswer(kind, resp)
                  /\ UNCHANGED <<state, faults, last_remote>>
             ELSE \E outcomes \in [ 1..Len(resp.tool_calls) -> ToolOutcomes ] :
                  /\ \A i \in 1..Len(resp.tool_calls) :
                        resp.tool_calls[i].name \notin LoopTools(kind) => outcomes[i] = "ok"
                  /\ faults + Raised(resp.tool_calls, outcomes) <= MaxFaults
                  /\ faults' = faults + Raised(resp.tool_calls, outcomes)
                  /\ conversation' = Append(conversation, ai)
                                     \o ToolMessages(kind, resp.tool_calls, outcomes)
                  /\ state' = ToolEffects(kind, state, resp.tool_calls, outcomes)
                  /\ last_remote' = IF DeleteCalls(kind, resp.tool_calls) # {}
                                    THEN RemoteCall(state, "delete_experiment", kind)
                                    ELSE last_remote
                  /\ UNCHANGED <<loop_pc, loop_ret>>
    /\ UNCHANGED <<kind, node, prev, actions_set, input_since_prompt, uc_after_prompt,
                   denied, unclear, prompt_for>>
    /\ UNCHANGED tool_vars
    /\ UNCHANGED visit_vars
    /\ UNCHANGED session_vars
    /\ UNCHANGED registry_vars

LoopExhausted ==
    /\ loop_pc = "loop"
    /\ ~LoopContinues(iteration, max_iterations(kind))
    /\ loop_pc' = "returned"
    /\ loop_ret' = ExhaustedAnswer(kind, conversation)
    /\ UNCHANGED <<state, kind, conversation, iteration, llm_calls, last_remote>>
    /\ UNCHANGED graph_vars
    /\ UNCHANGED tool_vars
    /\ UNCHANGED visit_vars
    /\ UNCHANGED session_vars
    /\ UNCHANGED registry_vars

InitLoop ==
    /\ state = create_initial_state
    /\ node = None
    /\ prev = None
    /\ actions_set = 0
    /\ faults = 0
    /\ input_since_prompt = FALSE
    /\ uc_after_prompt = FALSE
    /\ denied = FALSE
    /\ unclear = FALSE
    /\ prompt_for = NoPrompt
    /\ last_remote = NoRemote
    /\ kind \in LoopKinds
    /\ conversation = InitialMessages
    /\ iteration = 0
    /\ llm_calls = 0
    /\ loop_pc = "loop"
    /\ loop_ret = None
    /\ ToolsIdle
    /\ VisitIdle
    /\ RegistryIdle
    /\ SessionsIdle

NextLoop ==
    \/ LoopIteration
    \/ LoopExhausted

SpecLoop == InitLoop /\ [][NextLoop]_vars

\* the loop is straight-line code: once entered it keeps running
FairSpecLoop == SpecLoop /\ WF_vars(NextLoop)

---------------------------------------------------------------------------
(* One visit of a node that runs the loop: gatherer_node and
   _process_tool_calls (src/nodes/gatherer.py 281-405),
   response_generator_node and _process_tool_calls (src/nodes/response.py
   347-474), intelligent_agent_node (src/nodes/intelligent_agent.py 304-424).
   The gatherer and the response generator invoke the model themselves and
   enter the loop only when that response holds tool calls; the loop starts
   again from the node's messages. *)

\* final_response when the node's own model call proposes no tool call
FirstAnswer(k, resp) ==
    IF k = "gatherer" THEN None
    ELSE IF resp.content # "" THEN resp.content
    ELSE "trouble generating a response"

\* text built by _create_fallback_response
_create_fallback_response(resp) ==
    IF resp.content # "" THEN "text and gathered information" ELSE "gathered information"

\* result of intelligent_agent_node merged into the state: current_log and
\* new_log are read from the same state object
intelligent_agent_node(s, raises) ==
    IF raises
    THEN [ s EXCEPT !.final_response = "apology",
                    !.conversation_complete = TRUE,
                    !.current_state = "RESPONDING",
                    !.errors = @ \cup {"agent"} ]
    ELSE [ s EXCEPT !.final_response = "text",
                    !.conversation_complete = TRUE,
                    !.current_state = "RESPONDING",
                    !.execution_log = s.execution_log \o s.execution_log ]

\* the node's state update once its model calls and its loop are over
VisitResult(k, s, outcome) ==
    IF k = "gatherer" THEN gatherer_node(s, [ outcome |-> outcome, calls |-> <<>> ])
    ELSE IF k = "response" THEN response_generator_node(s, FALSE)
    ELSE intelligent_agent_node(s, outcome = "raises")

\* the node's own llm_with_tools.invoke(messages), then _process_tool_calls
NodeInvoke ==
    /\ loop_pc = "invoke"
    /\ llm_calls' = llm_calls + 1
    /\ \E resp \in Proposals :
         /\ first_response' = resp
         /\ IF resp.tool_calls = <<>>
            THEN /\ loop_pc' = "done"
                 /\ loop_ret' = FirstAnswer(kind, resp)
                 /\ state' = VisitResult(kind, state, "no_tool_calls")
            ELSE /\ loop_pc' = "loop"
                 /\ UNCHANGED <<loop_ret, state>>
    /\ UNCHANGED <<kind, conversation, iteration, last_remote, fallback_calls>>
    /\ UNCHANGED graph_vars
    /\ UNCHANGED tool_vars
    /\ UNCHANGED session_vars
    /\ UNCHANGED registry_vars

\* the model call of an iteration raises: the exception leaves the loop and
\* is caught by the caller
LoopRaises ==
    /\ loop_pc = "loop"
    /\ LoopContinues(iteration, max_iterations(kind))
    /\ faults < MaxFaults
    /\ faults' = faults + 1
    /\ iteration' = iteration + 1
    /\ llm_calls' = llm_calls + 1
    /\ loop_pc' = "done"
    /\ IF kind = "response"
       THEN /\ fallback_calls' = first_response.tool_calls
            /\ loop_ret' = _create_fallback_response(first_response)
            /\ state' = VisitResult(kind,
                            ToolEffects(kind, state, first_response.tool_calls,
                                        [ i \in 1..Len(first_response.tool_calls) |-> "ok" ]),
                            "tools")
       ELSE /\ state' = VisitResult(kind, state, "raises")
            /\ UNCHANGED <<fallback_calls, loop_ret>>
    /\ UNCHANGED <<kind, conversation, last_remote, first_response>>
    /\ UNCHANGED <<node, prev, actions_set, input_since_prompt, uc_after_prompt,
                   denied, unclear, prompt_for>>
    /\ UNCHANGED tool_vars
    /\ UNCHANGED session_vars
    /\ UNCHANGED registry_vars

\* the loop has returned: the node assembles its update
NodeReturn ==
    /\ loop_pc = "returned"
    /\ loop_pc' = "done"
    /\ state' = VisitResult(kind, state, "tools")
    /\ UNCHANGED <<kind, conversation, iteration, llm_calls, loop_ret, last_remote>>
    /\ UNCHANGED graph_vars
    /\ UNCHANGED tool_vars
    /\ UNCHANGED visit_vars
    /\ UNCHANGED session_vars
    /\ UNCHANGED registry_vars

InitVisit ==
    /\ state = create_initial_state
    /\ node = None
    /\ prev = None
    /\ actions_set = 0
    /\ faults = 0
    /\ input_since_prompt = FALSE
    /\ uc_after_prompt = FALSE
    /\ denied = FALSE
    /\ unclear = FALSE
    /\ prompt_for = NoPrompt
    /\ last_remote = NoRemote
    /\ kind \in LoopKinds
    /\ conversation = InitialMessages
    /\ iteration = 0
    /\ llm_calls = 0
    /\ loop_pc = IF kind = "agent" THEN "loop" ELSE "invoke"
    /\ loop_ret = None
    /\ ToolsIdle
    /\ VisitIdle
    /\ RegistryIdle
    /\ SessionsIdle

NextVisit ==
    \/ NodeInvoke
    \/ LoopIteration
    \/ LoopExhausted
    \/ LoopRaises
    \/ NodeReturn

SpecVisit == InitVisit /\ [][NextVisit]_vars

---------------------------------------------------------------------------
(* create_experiment and update_experiment:
   src/tools/executor/action_tools.py 67-613 *)

MaxSessionCalls == 2    \* tool calls one session makes
MaxToolCalls == 2       \* update_experiment calls made with the same action_params

NoId == 0               \* None in an id field (revertTo)

\* a key of action_params: present or not, and its value
Opt(S, default) ==
    { [ present |-> FALSE, value |-> default ] } \cup [ present : {TRUE}, value : S ]

ConditionCodes == {"control", "treatment", "ghost"}

\* post_experiment_rule values; condition_code None = key not in the dict
PostRules ==
    { [ rule |-> "continue", condition_code |-> None ],
      [ rule |-> "assign", condition_code |-> "control" ],
      [ rule |-> "assign", condition_code |-> "treatment" ],
      [ rule |-> "assign", condition_code |-> "ghost" ] }

\* conditions in the simplified {code, weight} format
SimplifiedConditions ==
    { << [ code |-> "control", weight |-> 50 ], [ code |-> "treatment", weight |-> 50 ] >>,
      << [ code |-> "control", weight |-> 50 ], [ code |-> "treatment", weight |-> 30 ] >>,
      << [ code |-> "treatment", weight |-> 100 ] >> }

AllGroup == [ type |-> "All", group_id |-> "All" ]

\* action_params dictionaries the executor is called with
ActionParams ==
    [ experiment_id        : Opt({"e1"}, None),
      name                 : Opt({"renamed"}, None),
      context              : Opt({"ctx2"}, None),
      decision_points      : Opt({ << [ site |-> "s2", target |-> "t2" ] >> }, <<>>),
      conditions           : Opt(SimplifiedConditions, <<>>),
      filter_mode          : Opt({"includeAll", "excludeAll"}, None),
      inclusion_users      : Opt({ <<"u1">> }, <<>>),
      inclusion_groups     : Opt({ << [ type |-> "class", group_id |-> "g1" ] >> }, <<>>),
      exclusion_users      : Opt({ <<"u2">> }, <<>>),
      exclusion_groups     : Opt({ << [ type |-> "class", group_id |-> "g2" ] >> }, <<>>),
      post_experiment_rule : Opt(PostRules, [ rule |-> None, condition_code |-> None ]),
      status_irrelevant_key : Opt({"x"}, None) ]

ParamKeys ==
    { "experiment_id", "name", "context", "decision_points", "conditions", "filter_mode",
      "inclusion_users", "inclusion_groups", "exclusion_users", "exclusion_groups",
      "post_experiment_rule", "status_irrelevant_key" }

\* the keys of the dictionary
Keys(p) == { k \in ParamKeys : p[k].present }

_create_experiment_segment(incl_users, incl_groups, excl_users, excl_groups, is_inclusion) ==
    LET users  == IF is_inclusion THEN incl_users ELSE excl_users
        groups == IF is_inclusion THEN incl_groups ELSE excl_groups
    IN  [ individualForSegment |-> [ i \in 1..Len(users) |-> [ userId |-> users[i] ] ],
          groupForSegment      |-> [ i \in 1..Len(groups) |->
                                        [ groupId |-> groups[i].group_id,
                                          type    |-> groups[i].type ] ] ]

\* the conditions list; uuid4 hands out next_id + 1, next_id + 2, ...
_create_conditions(conditions_data, next_id) ==
    [ i \in 1..Len(conditions_data) |->
        [ id               |-> next_id + i,
          conditionCode    |-> conditions_data[i].code,
          assignmentWeight |-> conditions_data[i].weight,
          order            |-> i - 1 ] ]

\* a code -> id dictionary; a later condition with the same code overwrites an
\* earlier one, NoId = code not in the dictionary
_build_condition_code_to_id_mapping(conditions) ==
    [ c \in ConditionCodes |->
        LET at == { i \in 1..Len(conditions) : conditions[i].conditionCode = c }
        IN  IF at = {} THEN NoId
            ELSE conditions[CHOOSE i \in at : \A j \in at : j <= i].id ]

_create_partitions(decision_points_data, next_id) ==
    [ i \in 1..Len(decision_points_data) |->
        [ id     |-> next_id + i,
          site   |-> decision_points_data[i].site,
          target |-> decision_points_data[i].target,
          order  |-> i - 1 ] ]

\* ids consumed by one call
UuidsUsed(p, updating) ==
    (IF p.conditions.present \/ ~updating THEN Len(p.conditions.value) ELSE 0)
    + (IF p.decision_points.present \/ ~updating THEN Len(p.decision_points.value) ELSE 0)

_transform_to_create_experiment_request(p, next_id) ==
    LET conditions == _create_conditions(p.conditions.value, next_id)
        condition_code_to_id == _build_condition_code_to_id_mapping(conditions)
        partitions == _create_partitions(p.decision_points.value, next_id + Len(conditions))
        rule == p.post_experiment_rule.value
    IN  [ name          |-> p.name.value,
          context       |-> << p.context.value >>,
          conditions    |-> conditions,
          partitions    |-> partitions,
          experimentSegmentInclusion |->
              _create_experiment_segment(p.inclusion_users.value, p.inclusion_groups.value,
                                         <<>>, <<>>, TRUE),
          experimentSegmentExclusion |->
              _create_experiment_segment(<<>>, <<>>, p.exclusion_users.value,
                                         p.exclusion_groups.value, FALSE),
          filterMode    |-> IF p.filter_mode.present THEN p.filter_mode.value
                            ELSE "excludeAll",
          state         |-> "inactive",
          postExperimentRule |-> IF p.post_experiment_rule.present THEN rule.rule
                                 ELSE "continue",
          revertTo      |-> IF p.post_experiment_rule.present /\ rule.rule = "assign"
                            THEN IF rule.condition_code = None THEN NoId
                                 ELSE condition_code_to_id[rule.condition_code]
                            ELSE NoId ]

\* the request fields of a fetched experiment; the service's own fields
\* (id, versionNumber) are not copied
_convert_experiment_to_create_request(experiment) ==
    [ name          |-> experiment.name,
      context       |-> experiment.context,
      conditions    |-> [ i \in 1..Len(experiment.conditions) |->
                            [ id               |-> experiment.conditions[i].id,
                              conditionCode    |-> experiment.conditions[i].conditionCode,
                              assignmentWeight |-> experiment.conditions[i].assignmentWeight,
                              order            |-> experiment.conditions[i].order ] ],
      partitions    |-> [ i \in 1..Len(experiment.partitions) |->
                            [ id     |-> experiment.partitions[i].id,
                              site   |-> experiment.partitions[i].site,
                              target |-> experiment.partitions[i].target,
                              order  |-> experiment.partitions[i].order ] ],
      experimentSegmentInclusion |-> experiment.experimentSegmentInclusion,
      experimentSegmentExclusion |-> experiment.experimentSegmentExclusion,
      filterMode    |-> experiment.filterMode,
      state         |-> experiment.state,
      postExperimentRule |-> experiment.postExperimentRule,
      revertTo      |-> experiment.revertTo ]

_apply_simple_field_updates(updated_request, p) ==
    [ updated_request EXCEPT
        !.name       = IF p.name.present THEN p.name.value ELSE @,
        !.filterMode = IF p.filter_mode.present THEN p.filter_mode.value ELSE @,
        !.context    = IF p.context.present THEN << p.context.value >> ELSE @ ]

\* returns the request and the condition code -> id dictionary
_apply_conditions_update(updated_request, p, next_id) ==
    IF p.conditions.present /\ p.conditions.value # <<>>
    THEN LET conditions == _create_conditions(p.conditions.value, next_id)
         IN  [ request |-> [ updated_request EXCEPT !.conditions = conditions ],
               condition_code_to_id |-> _build_condition_code_to_id_mapping(conditions) ]
    ELSE [ request |-> updated_request,
           condition_code_to_id |->
               _build_condition_code_to_id_mapping(updated_request.conditions) ]

\* variant: both segments are rebuilt from action_params on every update
_apply_segments_update_always_rebuilds(updated_request, p) ==
    [ updated_request EXCEPT
        !.experimentSegmentInclusion =
            _create_experiment_segment(p.inclusion_users.value, p.inclusion_groups.value,
                                       <<>>, <<>>, TRUE),
        !.experimentSegmentExclusion =
            _create_experiment_segment(<<>>, <<>>, p.exclusion_users.value,
                                       p.exclusion_groups.value, FALSE) ]

_apply_segments_update(updated_request, p) ==
    [ updated_request EXCEPT
        !.experimentSegmentInclusion =
            IF p.inclusion_users.present \/ p.inclusion_groups.present
            THEN _create_experiment_segment(p.inclusion_users.value,
                                            p.inclusion_groups.value, <<>>, <<>>, TRUE)
            ELSE @,
        !.experimentSegmentExclusion =
            IF p.exclusion_users.present \/ p.exclusion_groups.present
            THEN _create_experiment_segment(<<>>, <<>>, p.exclusion_users.value,
                                            p.exclusion_groups.value, FALSE)
            ELSE @ ]

\* variant: the continue rule leaves revertTo as it was
_apply_post_experiment_rule_update_keeps_revert(updated_request, p, condition_code_to_id) ==
    IF ~p.post_experiment_rule.present THEN updated_request
    ELSE LET rule_data == p.post_experiment_rule.value
             ruled == [ updated_request EXCEPT !.postExperimentRule = rule_data.rule ]
         IN  IF rule_data.rule = "assign" /\ rule_data.condition_code # None
                /\ condition_code_to_id[rule_data.condition_code] # NoId
             THEN [ ruled EXCEPT !.revertTo = condition_code_to_id[rule_data.condition_code] ]
             ELSE ruled

_apply_post_experiment_rule_update(updated_request, p, condition_code_to_id) ==
    IF ~p.post_experiment_rule.present THEN updated_request
    ELSE LET rule_data == p.post_experiment_rule.value
             ruled == [ updated_request EXCEPT !.postExperimentRule = rule_data.rule ]
             found == { i \in 1..Len(ruled.conditions) :
                          ruled.conditions[i].conditionCode = rule_data.condition_code }
         IN  IF rule_data.rule = "assign" /\ rule_data.condition_code # None
             THEN IF condition_code_to_id[rule_data.condition_code] # NoId
                  THEN [ ruled EXCEPT
                           !.revertTo = condition_code_to_id[rule_data.condition_code] ]
                  ELSE IF found # {}
                  THEN [ ruled EXCEPT
                           !.revertTo = ruled.conditions[
                               CHOOSE i \in found : \A j \in found : i <= j].id ]
                  ELSE ruled
             ELSE IF rule_data.rule = "continue"
             THEN [ ruled EXCEPT !.revertTo = NoId ]
             ELSE ruled

_apply_updates_to_experiment_request(base, p, next_id) ==
    LET simple     == _apply_simple_field_updates(base, p)
        cond       == _apply_conditions_update(simple, p, next_id)
        used       == IF p.conditions.present THEN Len(p.conditions.value) ELSE 0
        partitioned == IF p.decision_points.present
                       THEN [ cond.request EXCEPT
                                !.partitions = _create_partitions(p.decision_points.value,
                                                                  next_id + used) ]
                       ELSE cond.request
        segmented  == _apply_segments_update(partitioned, p)
    IN  _apply_post_experiment_rule_update(segmented, p, cond.condition_code_to_id)

\* what the service holds after accepting a request
Experiment(req) ==
    [ id            |-> "e1",
      versionNumber |-> 1,
      name          |-> req.name,
      context       |-> req.context,
      conditions    |-> req.conditions,
      partitions    |-> req.partitions,
      experimentSegmentInclusion |-> req.experimentSegmentInclusion,
      experimentSegmentExclusion |-> req.experimentSegmentExclusion,
      filterMode    |-> req.filterMode,
      state         |-> req.state,
      postExperimentRule |-> req.postExperimentRule,
      revertTo      |-> req.revertTo ]

\* experiments the service can hold before the call: ids 1..3 were handed out
\* when it was created
StoredConditions ==
    << [ id |-> 1, conditionCode |-> "control", assignmentWeight |-> 50, order |-> 0 ],
       [ id |-> 2, conditionCode |-> "treatment", assignmentWeight |-> 50, order |-> 1 ] >>

StoredExperiments ==
    { Experiment(
        [ name          |-> "exp",
          context       |-> << "ctx" >>,
          conditions    |-> StoredConditions,
          partitions    |-> << [ id |-> 3, site |-> "s1", target |-> "t1", order |-> 0 ] >>,
          experimentSegmentInclusion |->
              IF fm = "includeAll"
              THEN _create_experiment_segment(<<>>, << AllGroup >>, <<>>, <<>>, TRUE)
              ELSE _create_experiment_segment(
                       << "u0" >>, << [ type |-> "school", group_id |-> "g0" ] >>,
                       <<>>, <<>>, TRUE),
          experimentSegmentExclusion |->
              _create_experiment_segment(
                  <<>>, <<>>, << "u9" >>, << [ type |-> "school", group_id |-> "g9" ] >>,
                  FALSE),
          filterMode    |-> fm,
          state         |-> "inactive",
          postExperimentRule |-> IF rt = NoId THEN "continue" ELSE "assign",
          revertTo      |-> rt ]) : fm \in {"includeAll", "excludeAll"}, rt \in {NoId, 1} }

\* create_experiment (action_tools.py 504-550)
CreateExperiment ==
    /\ tool_pc = "ready"
    /\ op = "create"
    /\ IF _validate_required_params(Keys(tool_params),
                                    {"name", "context", "decision_points", "conditions"})
       THEN /\ request' = _transform_to_create_experiment_request(tool_params, uuids)
            /\ uuids' = uuids + UuidsUsed(tool_params, FALSE)
            /\ api_calls' = api_calls + 1
            /\ stored' = Experiment(request')
            /\ state' = _log_execution(state, "create_experiment", TRUE)
            /\ tool_pc' = "sent"
       ELSE /\ state' = _log_execution(state, "create_experiment", FALSE)
            /\ tool_pc' = "rejected"
            /\ UNCHANGED <<request, uuids, api_calls, stored>>
    /\ UNCHANGED <<op, tool_params, base_request, last_remote>>
    /\ UNCHANGED graph_vars
    /\ UNCHANGED loop_vars
    /\ UNCHANGED visit_vars
    /\ UNCHANGED session_vars
    /\ UNCHANGED registry_vars

\* update_experiment (action_tools.py 553-613); the tool can be called again
\* with the same action_params
UpdateExperiment ==
    /\ tool_pc \in {"ready", "sent"}
    /\ op = "update"
    /\ api_calls < MaxToolCalls
    /\ IF _validate_required_params(Keys(tool_params), {"experiment_id"})
       THEN LET update_params == [ tool_params EXCEPT !.experiment_id.present = FALSE ]
                base == _convert_experiment_to_create_request(stored)
            IN  /\ base_request' = base
                /\ request' = _apply_updates_to_experiment_request(base, update_params, uuids)
                /\ uuids' = uuids + UuidsUsed(tool_params, TRUE)
                /\ api_calls' = api_calls + 1
                /\ stored' = Experiment(request')
                /\ state' = _log_execution(state, "update_experiment", TRUE)
                /\ tool_pc' = "sent"
       ELSE /\ state' = _log_execution(state, "update_experiment", FALSE)
            /\ tool_pc' = "rejected"
            /\ UNCHANGED <<base_request, request, uuids, api_calls, stored>>
    /\ UNCHANGED <<op, tool_params, last_remote>>
    /\ UNCHANGED graph_vars
    /\ UNCHANGED loop_vars
    /\ UNCHANGED visit_vars
    /\ UNCHANGED session_vars
    /\ UNCHANGED registry_vars

InitTools ==
    /\ state = create_initial_state
    /\ node = None
    /\ prev = None
    /\ actions_set = 0
    /\ faults = 0
    /\ input_since_prompt = FALSE
    /\ uc_after_prompt = FALSE
    /\ denied = FALSE
    /\ unclear = FALSE
    /\ prompt_for = NoPrompt
    /\ last_remote = NoRemote
    /\ LoopIdle
    /\ VisitIdle
    /\ RegistryIdle
    /\ SessionsIdle
    /\ op \in {"create", "update"}
    /\ tool_params \in ActionParams
    /\ stored \in StoredExperiments
    /\ op = "create" => stored = CHOOSE e \in StoredExperiments : TRUE
    /\ base_request = _convert_experiment_to_create_request(stored)
    /\ request = base_request
    /\ tool_pc = "ready"
    /\ api_calls = 0
    /\ uuids = 3

NextTools ==
    \/ CreateExperiment
    \/ UpdateExperiment

SpecTools == InitTools /\ [][NextTools]_vars

---------------------------------------------------------------------------
(* Two sessions served by one process: src/tools/decorators.py 13-31 keeps
   the state the tools write to in the module-level _state_ref, which every
   node sets on entry (set_global_state) and every tool reads when it writes,
   after its awaited call has come back. *)

Sessions == {1, 2}

\* state fields written through _state_ref: by auto_store, by
\* set_action_needed and set_action_params, by _handle_error and add_error,
\* by _log_execution
ToolFields == {"gathered_info", "action_needed", "errors", "execution_log"}

\* a node of session s starts: set_global_state(state)
set_global_state(s) ==
    /\ session_pc[s] = "idle"
    /\ state_ref' = s
    /\ session_pc' = [ session_pc EXCEPT ![s] = "entered" ]
    /\ UNCHANGED <<session_tool, session_calls, session_state>>
    /\ UNCHANGED <<state, last_remote>>
    /\ UNCHANGED graph_vars
    /\ UNCHANGED loop_vars
    /\ UNCHANGED tool_vars
    /\ UNCHANGED visit_vars
    /\ UNCHANGED registry_vars

\* the node awaits a tool (await tool_func.ainvoke(tool_args)), which awaits
\* the remote service
SessionCallsTool(s) ==
    /\ session_pc[s] = "entered"
    /\ session_calls[s] < MaxSessionCalls
    /\ \E f \in ToolFields : session_tool' = [ session_tool EXCEPT ![s] = f ]
    /\ session_calls' = [ session_calls EXCEPT ![s] = @ + 1 ]
    /\ session_pc' = [ session_pc EXCEPT ![s] = "awaiting" ]
    /\ UNCHANGED <<state_ref, session_state>>
    /\ UNCHANGED <<state, last_remote>>
    /\ UNCHANGED graph_vars
    /\ UNCHANGED loop_vars
    /\ UNCHANGED tool_vars
    /\ UNCHANGED visit_vars
    /\ UNCHANGED registry_vars

\* the awaited call is back: the tool writes into whatever _state_ref is now
SessionToolWrites(s) ==
    /\ session_pc[s] = "awaiting"
    /\ session_state' =
           [ session_state EXCEPT ![state_ref] =
                 @ \cup { [ field |-> session_tool[s], owner |-> s ] } ]
    /\ session_tool' = [ session_tool EXCEPT ![s] = None ]
    /\ session_pc' = [ session_pc EXCEPT ![s] = "entered" ]
    /\ UNCHANGED <<state_ref, session_calls>>
    /\ UNCHANGED <<state, last_remote>>
    /\ UNCHANGED graph_vars
    /\ UNCHANGED loop_vars
    /\ UNCHANGED tool_vars
    /\ UNCHANGED visit_vars
    /\ UNCHANGED registry_vars

\* the node returns its update
SessionNodeReturns(s) ==
    /\ session_pc[s] = "entered"
    /\ session_pc' = [ session_pc EXCEPT ![s] = "idle" ]
    /\ UNCHANGED <<state_ref, session_tool, session_calls, session_state>>
    /\ UNCHANGED <<state, last_remote>>
    /\ UNCHANGED graph_vars
    /\ UNCHANGED loop_vars
    /\ UNCHANGED tool_vars
    /\ UNCHANGED visit_vars
    /\ UNCHANGED registry_vars

InitSessions ==
    /\ state = create_initial_state
    /\ node = None
    /\ prev = None
    /\ actions_set = 0
    /\ faults = 0
    /\ input_since_prompt = FALSE
    /\ uc_after_prompt = FALSE
    /\ denied = FALSE
    /\ unclear = FALSE
    /\ prompt_for = NoPrompt
    /\ last_remote = NoRemote
    /\ LoopIdle
    /\ ToolsIdle
    /\ VisitIdle
    /\ RegistryIdle
    /\ state_ref = NoId
    /\ session_pc = [ s \in Sessions |-> "idle" ]
    /\ session_tool = [ s \in Sessions |-> None ]
    /\ session_calls = [ s \in Sessions |-> 0 ]
    /\ session_state = [ s \in Sessions |-> {} ]

NextSessions ==
    \E s \in Sessions :
        \/ set_global_state(s)
        \/ SessionCallsTool(s)
        \/ SessionToolWrites(s)
        \/ SessionNodeReturns(s)

SpecSessions == InitSessions /\ [][NextSessions]_vars

---------------------------------------------------------------------------
(* The tool registry and its merged views: src/tools/registry.py 14-69,
   src/nodes/intelligent_agent.py 186-211 and 323-347.  A registered tool is
   identified by the node type it was registered for. *)

NodeTypes == {"analyzer", "gatherer", "executor", "response"}

\* a tool name registered under more than one node type in src/tools, and
\* one that is not
RegisteredNames == {"get_all_experiments", "delete_experiment"}

\* all_tools.update(tool_registry.get_tools_for_node(node_type)), for each
\* node type of the sequence in turn
RECURSIVE UpdateInOrder(_, _, _)
UpdateInOrder(all_tools, node_types, tools) ==
    IF node_types = <<>> THEN all_tools
    ELSE LET from == tools[Head(node_types)]
             next == [ name \in DOMAIN all_tools \cup from |->
                         IF name \in from THEN Head(node_types) ELSE all_tools[name] ]
         IN  UpdateInOrder(next, Tail(node_types), tools)

\* ToolRegistry.get_all_tools: iterates self._tools.values(), a dict created
\* with the keys analyzer, gatherer, executor, response
get_all_tools(tools) ==
    UpdateInOrder(<<>>, << "analyzer", "gatherer", "executor", "response" >>, tools)

\* all_tools_dict of intelligent_agent_node, bound to the model
AgentBoundTools(tools) ==
    UpdateInOrder(<<>>, << "response", "analyzer", "executor", "gatherer" >>, tools)

\* all_tools of the agent's _execute_tool_calls_and_create_tool_messages
AgentDispatchTools(tools) ==
    UpdateInOrder(<<>>, << "response", "analyzer", "executor", "gatherer" >>, tools)

NoViews == [ of |-> [ n \in NodeTypes |-> {} ], bound |-> <<>>, dispatch |-> <<>>, all |-> <<>> ]

register_tool(node_type, tool_name) ==
    /\ _tools' = [ _tools EXCEPT ![node_type] = @ \cup {tool_name} ]
    /\ UNCHANGED merged
    /\ UNCHANGED <<state, last_remote>>
    /\ UNCHANGED graph_vars
    /\ UNCHANGED loop_vars
    /\ UNCHANGED tool_vars
    /\ UNCHANGED visit_vars
    /\ UNCHANGED session_vars

\* the agent node and a caller of get_all_tools build their views
MergeViews ==
    /\ merged' = [ of       |-> _tools,
                   bound    |-> AgentBoundTools(_tools),
                   dispatch |-> AgentDispatchTools(_tools),
                   all      |-> get_all_tools(_tools) ]
    /\ UNCHANGED _tools
    /\ UNCHANGED <<state, last_remote>>
    /\ UNCHANGED graph_vars
    /\ UNCHANGED loop_vars
    /\ UNCHANGED tool_vars
    /\ UNCHANGED visit_vars
    /\ UNCHANGED session_vars

InitRegistry ==
    /\ state = create_initial_state
    /\ node = None
    /\ prev = None
    /\ actions_set = 0
    /\ faults = 0
    /\ input_since_prompt = FALSE
    /\ uc_after_prompt = FALSE
    /\ denied = FALSE
    /\ unclear = FALSE
    /\ prompt_for = NoPrompt
    /\ last_remote = NoRemote
    /\ LoopIdle
    /\ ToolsIdle
    /\ VisitIdle
    /\ SessionsIdle
    /\ _tools = [ n \in NodeTypes |-> {} ]
    /\ merged = NoViews

NextRegistry ==
    \/ \E node_type \in NodeTypes, tool_name \in RegisteredNames :
           register_tool(node_type, tool_name)
    \/ MergeViews

SpecRegistry == InitRegistry /\ [][NextRegistry]_vars

---------------------------------------------------------------------------
(* Properties *)

\* C1: delete_experiment reaches the remote service only under a prompt
\* generated for it and an affirmative answer on record; stated for every
\* router variant. Fails in the single-stage agent loop, whose merged tool table
\* holds the executor tools, so a model proposal runs the delete directly.
C1_DeleteOnlyAfterConfirmation ==
    last_remote.action = "delete_experiment" =>
        /\ last_remote.needs_confirmation
        /\ last_remote.prompted = "delete_experiment"
        /\ last_remote.user_confirmed = Yes

\* C2: whenever the router selects tool_executor, missing_params is empty.
\* Fails: analyzer_routing does not look at missing_params.
C2_NoMissingParamsAtExecutor ==
    node = "tool_executor" => state.missing_params = <<>>

\* C3: the iterative loop invokes the model at most max_iterations times and
\* then returns, whatever the model answers.
C3_LoopBounded ==
    /\ [](llm_calls <= max_iterations(kind))
    /\ <>(loop_pc = "returned")

C3_Witness ==
    /\ loop_pc = "returned"
    /\ llm_calls = max_iterations(kind)
    /\ conversation[Len(conversation)].role = "tool"

\* C4: tool_executor is selected only on an affirmative answer recorded while
\* analysing an input that arrived after the prompt was generated.
\* Fails: user_confirmed is never reset by confirmation_handler, and the
\* response generator routes back to the analyzer within the same turn.
C4_ExecutorOnlyOnFreshAffirmation ==
    node = "tool_executor" => (state.user_confirmed = Yes /\ uc_after_prompt)

\* C5: after a denial of the pending prompt, tool_executor is not selected
\* until confirmation_handler has generated a new prompt.
\* Fails: the denial leaves action_needed and needs_confirmation in place.
C5_DeniedActionNotExecuted ==
    node = "tool_executor" => ~denied

\* C6: with a confirmation pending and an answer on record after the analyzer,
\* the successor follows the answer, whatever the intent.
C6_ConfirmationAnswerTakesPriority ==
    (prev = "conversation_analyzer" /\ state.needs_confirmation
        /\ state.user_confirmed # None)
    => node = (IF state.user_confirmed = Yes THEN "tool_executor"
               ELSE "response_generator")

C6_Witness ==
    /\ prev = "conversation_analyzer"
    /\ state.needs_confirmation
    /\ state.user_confirmed = No
    /\ state.intent_type = "needs_info"
    /\ node = "response_generator"

\* C7: with no confirmation pending, the analyzer's successor is
\* information_gatherer on needs_info and response_generator otherwise;
\* tool_executor is selected only on a pending, affirmed confirmation.
C7_IntentRouting ==
    prev = "conversation_analyzer" =>
        /\ ~state.needs_confirmation =>
              node = (IF state.intent_type = "needs_info" THEN "information_gatherer"
                      ELSE "response_generator")
        /\ node = "tool_executor" =>
              (state.needs_confirmation /\ state.user_confirmed = Yes)

C7_Witness ==
    /\ prev = "conversation_analyzer"
    /\ ~state.needs_confirmation
    /\ state.intent_type = "needs_info"
    /\ state.execution_log # <<>>
    /\ node = "information_gatherer"

\* C8: after the gatherer the successor is confirmation_handler exactly when an
\* action is set and missing_params is empty, and response_generator otherwise.
C8_GathererRouting ==
    prev = "information_gatherer" =>
        node = (IF state.action_needed # None /\ state.missing_params = <<>>
                THEN "confirmation_handler" ELSE "response_generator")

C8_Witness ==
    /\ prev = "information_gatherer"
    /\ node = "confirmation_handler"
    /\ state.errors # {}

\* C9: after the confirmation handler the successor is response_generator, in
\* every state.
C9_ConfirmationRouting ==
    prev = "confirmation_handler" => node = "response_generator"

C9_Witness ==
    /\ prev = "confirmation_handler"
    /\ node = "response_generator"
    /\ state.needs_confirmation
    /\ state.user_confirmed = Yes

\* C10: after tool_executor, on success and on failure, the next node is
\* conversation_analyzer.
C10_ExecutorRouting ==
    prev = "tool_executor" => node = "conversation_analyzer"

C10_Witness ==
    /\ prev = "tool_executor"
    /\ node = "conversation_analyzer"
    /\ state.current_state = "RESPONDING"
    /\ "not_found" \in state.errors

\* C11: after the response generator the turn ends (END) exactly when
\* conversation_complete is true; otherwise the next node is
\* conversation_analyzer.
C11_ResponseRouting ==
    [][ node = "response_generator" =>
            node' = (IF state'.conversation_complete THEN "END"
                     ELSE "conversation_analyzer") ]_vars

C11_Witness ==
    /\ prev = "response_generator"
    /\ node = "conversation_analyzer"
    /\ ~state.conversation_complete
    /\ state.needs_confirmation

\* C12: when the response generator presents the prompt right after
\* confirmation_handler produced it (so no answer can have been recorded
\* since), it reports conversation_complete = false.
\* Fails: user_confirmed starts as False, not None, so the first prompt of a
\* session is taken for a denied one and the conversation is marked complete.
C12_UnansweredPromptKeepsOpen ==
    [][ (prev = "confirmation_handler" /\ node = "response_generator"
            /\ state.needs_confirmation /\ faults' = faults)
        => ~state'.conversation_complete ]_vars

C15_UnclearReplyNotExecuted ==
    (prev = "conversation_analyzer" /\ unclear)
    => (node # "tool_executor" /\ state.needs_confirmation)

\* total assignment weight of a request's conditions
RECURSIVE SumWeights(_)
SumWeights(conditions) ==
    IF conditions = <<>> THEN 0
    ELSE Head(conditions).assignmentWeight + SumWeights(Tail(conditions))

\* C16: for create and for update, every request that is sent has condition
\* weights summing to 100, and a supplied condition list with another sum is
\* rejected before any remote call.
\* Fails: neither tool adds up the weights; the list is sent as supplied.
C16_WeightsSumTo100 ==
    /\ tool_pc = "sent" => SumWeights(request.conditions) = 100
    /\ (tool_pc \in {"sent", "rejected"} /\ tool_params.conditions.present
          /\ SumWeights(_create_conditions(tool_params.conditions.value, 0)) # 100)
       => (tool_pc = "rejected" /\ api_calls = 0)

\* C17: with filter_mode = includeAll, on create and on update, the inclusion
\* segment of the request holds exactly the group {type: All, group_id: All}
\* and no individual users.
\* Fails: the executor's builders copy the supplied (or stored) users and groups.
C17_IncludeAllSentinel ==
    (tool_pc = "sent" /\ tool_params.filter_mode.present
        /\ tool_params.filter_mode.value = "includeAll")
    => request.experimentSegmentInclusion =
           [ individualForSegment |-> <<>>,
             groupForSegment |-> << [ groupId |-> "All", type |-> "All" ] >> ]

\* C18: on an update that does not set filter_mode to includeAll, each segment
\* component whose key is absent from the override keeps the value of the
\* fetched experiment.
\* Fails: a supplied sibling key rebuilds the whole segment and the absent
\* component becomes empty.
C18_AbsentSegmentKeysPreserved ==
    (tool_pc = "sent" /\ op = "update"
        /\ ~(tool_params.filter_mode.present /\ tool_params.filter_mode.value = "includeAll"))
    => /\ ~tool_params.inclusion_users.present =>
            request.experimentSegmentInclusion.individualForSegment
                = base_request.experimentSegmentInclusion.individualForSegment
       /\ ~tool_params.inclusion_groups.present =>
            request.experimentSegmentInclusion.groupForSegment
                = base_request.experimentSegmentInclusion.groupForSegment
       /\ ~tool_params.exclusion_users.present =>
            request.experimentSegmentExclusion.individualForSegment
                = base_request.experimentSegmentExclusion.individualForSegment
       /\ ~tool_params.exclusion_groups.present =>
            request.experimentSegmentExclusion.groupForSegment
                = base_request.experimentSegmentExclusion.groupForSegment

\* C19: an override with none of the recognised update keys yields a request
\* equal to the base request converted from the fetched experiment, and
\* applying it again changes nothing.
C19_EmptyOverrideIsIdentity ==
    /\ [] ( (op = "update" /\ tool_pc = "sent"
               /\ Keys(tool_params) \subseteq {"experiment_id", "status_irrelevant_key"})
            => request = base_request )
    /\ [][ (op = "update" /\ tool_pc = "sent"
               /\ Keys(tool_params) \subseteq {"experiment_id", "status_irrelevant_key"})
           => request' = request ]_vars

C19_Witness ==
    /\ op = "update"
    /\ tool_pc = "sent"
    /\ api_calls = 2
    /\ Keys(tool_params) = {"experiment_id", "status_irrelevant_key"}
    /\ request.revertTo # NoId
    /\ request.experimentSegmentInclusion.individualForSegment # <<>>
    /\ request = _convert_experiment_to_create_request(stored)

\* C20: with post_experiment_rule {rule: assign, condition_code: c} and c the
\* code of one of the request's conditions, revertTo is the id of a condition
\* of the request with code c; with rule continue, revertTo is null whatever
\* the base request carried. On create and on update.
C20_RevertTo ==
    (tool_pc = "sent" /\ tool_params.post_experiment_rule.present)
    => LET rule == tool_params.post_experiment_rule.value
           with_code == { i \in 1..Len(request.conditions) :
                            request.conditions[i].conditionCode = rule.condition_code }
       IN  /\ (rule.rule = "assign" /\ with_code # {}) =>
                 \E i \in with_code : request.revertTo = request.conditions[i].id
           /\ rule.rule = "continue" => request.revertTo = NoId

C20_Witness ==
    /\ op = "update"
    /\ tool_pc = "sent"
    /\ tool_params.post_experiment_rule.present
    /\ tool_params.post_experiment_rule.value.rule = "continue"
    /\ base_request.revertTo # NoId
    /\ request.revertTo = NoId

\* C21: a post_experiment_rule asking for assign with a condition_code that
\* matches no condition of the request is rejected and nothing is sent; every
\* request sent with rule assign has revertTo set to the id of one of its
\* conditions.
\* Fails: create sends revertTo = null, update keeps whatever revertTo the base
\* request had.
C21_UnmatchedAssignRejected ==
    tool_pc = "sent" =>
        /\ (tool_params.post_experiment_rule.present
              /\ tool_params.post_experiment_rule.value.rule = "assign")
           => \E i \in 1..Len(request.conditions) :
                 request.conditions[i].conditionCode
                     = tool_params.post_experiment_rule.value.condition_code
        /\ request.postExperimentRule = "assign"
           => \E i \in 1..Len(request.conditions) :
                 request.conditions[i].id = request.revertTo

\* C22: when the analyzer, the gatherer, the confirmation handler or the
\* executor hits an internal error, the error is recorded in errors, the stage
\* becomes RESPONDING and the next node to run is response_generator.
\* Fails: the routing functions of the analyzer and the gatherer read neither
\* errors nor current_state, and executor_routing always returns
\* conversation_analyzer.
C22_ErrorRoutesToResponse ==
    [][ ( \/ node \in {"conversation_analyzer", "information_gatherer"}
               /\ faults' # faults
          \/ node = "confirmation_handler" /\ state.action_needed = None
          \/ node = "tool_executor"
               /\ \/ ~CallsRemote(state.action_needed, state.action_params)
                  \/ faults' # faults )
        => /\ state'.errors # {}
           /\ state'.current_state = "RESPONDING"
           /\ node' = "response_generator" ]_vars

\* C23: tool_executor returns a state update carrying an errors entry for the
\* failure when no action is set, when the action has no executor tool, when
\* required parameters are missing and when the remote call fails; the graph
\* goes on to conversation_analyzer.
C23_ExecutorRecordsFailure ==
    [][ node = "tool_executor" =>
          LET a == state.action_needed
          IN  /\ a = None => "executor" \in state'.errors
              /\ (a # None /\ a \notin ExecutorTools) => "unknown" \in state'.errors
              /\ (a \in ExecutorTools
                    /\ ~_validate_required_params(state.action_params, RequiredParams(a)))
                 => "validation" \in state'.errors
              /\ (CallsRemote(a, state.action_params) /\ faults' # faults)
                 => "not_found" \in state'.errors
              /\ node' = "conversation_analyzer" ]_vars

C23_Witness ==
    /\ prev = "tool_executor"
    /\ node = "conversation_analyzer"
    /\ state.errors = {"unknown"}
    /\ state.action_needed = None
    /\ state.current_state = "RESPONDING"

\* C24: every key of errors is one of api, auth, validation, not_found,
\* unknown, gathering.
\* Fails: the nodes record their failures under their own names.
C24_ErrorKeysInTaxonomy ==
    state.errors \subseteq {"api", "auth", "validation", "not_found", "unknown", "gathering"}

\* C29: confirmation_handler invoked with no pending action records an errors
\* entry, reports stage RESPONDING, and leaves needs_confirmation and
\* confirmation_message as they were.
C29_ConfirmationWithoutAction ==
    [][ (node = "confirmation_handler" /\ state.action_needed = None)
        => /\ "confirmation" \in state'.errors
           /\ state'.current_state = "RESPONDING"
           /\ state'.needs_confirmation = state.needs_confirmation
           /\ state'.confirmation_message = state.confirmation_message ]_vars

C29_Witness ==
    /\ prev = "confirmation_handler"
    /\ state.action_needed = None
    /\ "confirmation" \in state.errors
    /\ state.current_state = "RESPONDING"
    /\ ~state.needs_confirmation
    /\ state.confirmation_message = NoMessage

\* C27: when the loop of the response generator or of the intelligent agent
\* ends because max_iterations was reached while the model was still
\* proposing tool calls, the value returned is not the raw content of a tool
\* result.
\* Fails: the intelligent agent returns conversation[-1].content, and the
\* last message of the conversation is then a ToolMessage.
C27_ExhaustedNeverReturnsToolResult ==
    (loop_pc = "returned"
       /\ kind \in {"response", "agent"}
       /\ conversation[Len(conversation)].role = "tool")
    => loop_ret \notin {"tool result", "Tool failed", "Unknown tool"}

\* C28: every model response with tool calls is followed in the conversation
\* by exactly one ToolMessage per proposed call, in the order proposed, each
\* with the call's id and name and a textual content; an unknown tool name
\* yields the text "Unknown tool"; a batch with a failing call leaves the
\* loop running.
C28_OneResultPerProposalInOrder ==
    /\ [](\A i \in 1..Len(conversation) :
            LET m == conversation[i]
                n == Len(m.tool_calls)
            IN  (m.role = "ai" /\ n > 0) =>
                  /\ i + n <= Len(conversation)
                  /\ \A j \in 1..n :
                       LET t == conversation[i + j]
                       IN  /\ t.role = "tool"
                           /\ t.tool_call_id = m.tool_calls[j].id
                           /\ t.name = m.tool_calls[j].name
                           /\ t.content \in {"tool result", "Tool failed", "Unknown tool"}
                           /\ (t.content = "Unknown tool")
                                <=> (t.name \notin LoopTools(kind))
                  /\ i + n < Len(conversation) => conversation[i + n + 1].role = "ai")
    /\ [][ (loop_pc = "loop" /\ Len(conversation') > Len(conversation) + 1)
           => loop_pc' = "loop" ]_vars

C28_Witness ==
    \E i \in 1..Len(conversation) :
        /\ i + 2 <= Len(conversation)
        /\ conversation[i].role = "tool"
        /\ conversation[i].content = "Unknown tool"
        /\ conversation[i + 1].role = "tool"
        /\ conversation[i + 1].content = "tool result"
        /\ conversation[i + 1].tool_call_id = "c"
        /\ conversation[i + 2].role = "ai"

\* C25: execution_log holds exactly one entry per invocation of an action
\* tool, in invocation order: the entries are those of the delete_experiment
\* calls the loop has dispatched, with their outcomes.
\* Fails: intelligent_agent_node returns current_log + new_log, both read
\* from the state the tools wrote to, so every entry appears twice.
C25_OneLogEntryPerInvocation ==
    LET invoked == { i \in 1..Len(conversation) :
                       /\ conversation[i].role = "tool"
                       /\ conversation[i].name = "delete_experiment"
                       /\ conversation[i].name \in LoopTools(kind) }
    IN  /\ Len(state.execution_log) = Cardinality(invoked)
        /\ \A i \in invoked :
             LET n == Cardinality({ j \in invoked : j <= i })
             IN  n <= Len(state.execution_log)
                 => /\ state.execution_log[n].action = "delete_experiment"
                    /\ state.execution_log[n].success
                         = (conversation[i].content = "tool result")

\* C30: whenever the model is invoked again during a node visit, every tool
\* call proposed so far, by the node's own model call and by the loop's, has
\* been executed, and none more than once: as many calls have been run (by
\* the loop or by the response fallback) as have been proposed.
\* Fails: the gatherer and the response generator pass the messages, not the
\* first response, to the loop, which invokes the model afresh.
C30_ProposedCallsExecutedOnce ==
    [][ (llm_calls' > llm_calls /\ llm_calls >= 1)
        => Len(first_response.tool_calls)
             + Cardinality(UNION { { <<i, j>> : j \in 1..Len(conversation[i].tool_calls) } :
                                   i \in 1..Len(conversation) })
           = Cardinality({ i \in 1..Len(conversation) : conversation[i].role = "tool" })
             + Len(fallback_calls) ]_vars

\* C26: with the turns of two sessions interleaved at their awaits, every
\* write a tool makes lands in the state of the session that called the tool.
\* Fails: the tools write through the module-level _state_ref, which by the
\* time the awaited call returns may have been set by the other session.
C26_ToolWritesStayInOwnSession ==
    \A s \in Sessions : \A w \in session_state[s] : w.owner = s

\* C31: when tool_executor runs an action whose required parameters are not
\* all in action_params, no call reaches the remote service, the failure is
\* appended to execution_log with success = false, and the error is recorded
\* under validation.
C31_MissingRequiredParamFails ==
    [][ (node = "tool_executor"
           /\ state.action_needed \in ExecutorTools
           /\ ~(RequiredParams(state.action_needed) \subseteq state.action_params))
        => /\ last_remote' = last_remote
           /\ state'.execution_log
                = Append(state.execution_log,
                         [ action |-> state.action_needed, success |-> FALSE ])
           /\ "validation" \in state'.errors ]_vars

C31_Witness ==
    /\ prev = "tool_executor"
    /\ "validation" \in state.errors
    /\ state.execution_log
         = << [ action |-> "update_experiment_status", success |-> FALSE ] >>
    /\ last_remote = NoRemote

\* C32: in every merged view of the registry (the tools bound to the model,
\* the agent's dispatch table, get_all_tools) a name registered for several
\* node types resolves to the gatherer's tool if there is one, else the
\* executor's, else the analyzer's, else the response generator's.
\* Fails: get_all_tools updates in the order analyzer, gatherer, executor,
\* response, so the response generator's tool wins there.
C32_OnePriorityOrder ==
    \A view \in { merged.bound, merged.dispatch, merged.all } :
        \A name \in DOMAIN view :
            view[name] = IF name \in merged.of["gatherer"] THEN "gatherer"
                         ELSE IF name \in merged.of["executor"] THEN "executor"
                         ELSE IF name \in merged.of["analyzer"] THEN "analyzer"
                         ELSE "response"

\* C33: whenever a node is about to run, current_state names that node's
\* stage.
\* Fails: confirmation_handler and response_generator_node write their own
\* stage on leaving, the other nodes the stage they expect to come next, and
\* the routing functions choose the next node from other fields.
C33_StageIsRunningNode ==
    /\ node = "conversation_analyzer" => state.current_state = "ANALYZING"
    /\ node = "information_gatherer"  => state.current_state = "GATHERING_INFO"
    /\ node = "confirmation_handler"  => state.current_state = "CONFIRMING"
    /\ node = "tool_executor"         => state.current_state = "EXECUTING"
    /\ node = "response_generator"    => state.current_state = "RESPONDING"

\* C34: every invocation of the graph reaches END: from any point of a turn
\* the graph gets to END after finitely many node visits.
\* Fails: with the conversation not complete (missing parameters, or a prompt
\* not yet answered) response_routing returns conversation_analyzer within
\* the same invocation, and the analyzer, given the same input, can lead back
\* to the response generator in the same state.
C34_TurnReachesEnd ==
    []<>(node = "END")

\* C35: the action and the parameters tool_executor is about to run are the
\* ones the latest confirmation prompt was generated for.
C35_ExecutesWhatWasPrompted ==
    node = "tool_executor" =>
        /\ prompt_for.action = state.action_needed
        /\ prompt_for.params = state.action_params

\* C36: a run of tool_executor on a pending action clears action_needed,
\* needs_confirmation and user_confirmed, whether the action succeeds or
\* fails, and tool_executor is not selected again before confirmation_handler
\* has generated a new prompt.
C36_OneExecutionPerConfirmation ==
    /\ [][ (node = "tool_executor" /\ state.action_needed # None)
           => /\ state'.action_needed = None
              /\ ~state'.needs_confirmation
              /\ state'.user_confirmed = None ]_vars
    /\ [](node = "tool_executor" => prompt_for # NoPrompt)

C36_Witness ==
    /\ prev = "tool_executor"
    /\ node = "conversation_analyzer"
    /\ prompt_for = NoPrompt
    /\ state.execution_log # <<>>
    /\ state.action_needed = None
    /\ ~state.needs_confirmation
    /\ state.user_confirmed = None

\* C37: needs_confirmation implies that an action is set and a confirmation
\* message is present, and tool_executor is never selected without an action.
C37_PendingPromptHasAction ==
    /\ state.needs_confirmation
       => (state.action_needed # None /\ state.confirmation_message # NoMessage)
    /\ node = "tool_executor" => state.action_needed # None

C37_Witness ==
    /\ node = "tool_executor"
    /\ state.needs_confirmation
    /\ state.action_needed = "delete_experiment"
    /\ state.confirmation_message # NoMessage

\* C38: in a visit of the gatherer or of the response generator a model
\* proposal naming an executor tool gets the result "Unknown tool", reaches
\* no remote call and leaves no entry in execution_log, in the loop and on the
\* response generator's fallback path.
C38_ActionToolsOnlyInExecutor ==
    kind \in {"gatherer", "response"} =>
        /\ last_remote = NoRemote
        /\ state.execution_log = <<>>
        /\ \A i \in 1..Len(conversation) :
             (conversation[i].role = "tool"
                /\ conversation[i].name \in ToolRegistry.executor)
             => conversation[i].content = "Unknown tool"

C38_Witness ==
    /\ kind = "gatherer"
    /\ last_remote = NoRemote
    /\ \E i \in 1..Len(conversation) :
         /\ conversation[i].role = "tool"
         /\ conversation[i].name = "delete_experiment"
         /\ conversation[i].content = "Unknown tool"

\* ---- src/graph/routing.py: the routing functions the graph package exports ----
\* (builder.py wires the functions of src/nodes/*.py above, not these)

graph_analyzer_routing(s) ==
    IF s.user_confirmed = Yes /\ s.action_needed # None THEN "tool_executor"
    ELSE IF s.intent_type = "direct_answer" THEN "response_generator"
    ELSE IF s.intent_type = "needs_info" THEN "information_gatherer"
    ELSE "response_generator"

graph_gatherer_routing(s) ==
    IF s.action_needed = None THEN "response_generator"
    ELSE IF s.missing_params # <<>> THEN "response_generator"
    ELSE "confirmation_handler"

graph_confirmation_routing(s) == "response_generator"

graph_executor_routing(s) == "conversation_analyzer"

graph_response_routing(s) ==
    IF s.conversation_complete THEN "END" ELSE "conversation_analyzer"

\* C39: on the state every node leaves behind, the routing function of
\* src/graph/routing.py and the function of the same name in src/nodes selects
\* the same successor.
C39_ExportedRoutingAgrees ==
    /\ prev = "conversation_analyzer"
         => graph_analyzer_routing(state) = analyzer_routing(state)
    /\ prev = "information_gatherer"
         => graph_gatherer_routing(state) = gatherer_routing(state)
    /\ prev = "confirmation_handler"
         => graph_confirmation_routing(state) = confirmation_routing(state)
    /\ prev = "tool_executor"
         => graph_executor_routing(state) = executor_routing(state)
    /\ prev = "response_generator"
         => graph_response_routing(state) = response_routing(state)

\* ---- src/utils/experiment_builders.py: the copies the action tools do not import ----

\* the users and groups of a segment, in the action_params format
existing_users(segment) ==
    [ i \in 1..Len(segment.individualForSegment) |-> segment.individualForSegment[i].userId ]

existing_groups(segment) ==
    [ i \in 1..Len(segment.groupForSegment) |->
        [ type     |-> segment.groupForSegment[i].type,
          group_id |-> segment.groupForSegment[i].groupId ] ]

utils_transform_to_create_experiment_request(p, next_id) ==
    LET filter_mode == IF p.filter_mode.present THEN p.filter_mode.value ELSE "excludeAll"
        inclusion_users  == IF filter_mode = "includeAll" THEN <<>>
                            ELSE p.inclusion_users.value
        inclusion_groups == IF filter_mode = "includeAll" THEN << AllGroup >>
                            ELSE p.inclusion_groups.value
    IN  [ _transform_to_create_experiment_request(p, next_id) EXCEPT
            !.experimentSegmentInclusion =
                _create_experiment_segment(inclusion_users, inclusion_groups,
                                           <<>>, <<>>, TRUE) ]

utils_apply_segments_update(updated_request, p) ==
    LET existing_inclusion == updated_request.experimentSegmentInclusion
        existing_exclusion == updated_request.experimentSegmentExclusion
        include_all == p.filter_mode.present /\ p.filter_mode.value = "includeAll"
        inclusion_users  == IF include_all THEN <<>>
                            ELSE IF p.inclusion_users.present THEN p.inclusion_users.value
                            ELSE existing_users(existing_inclusion)
        inclusion_groups == IF include_all THEN << AllGroup >>
                            ELSE IF p.inclusion_groups.present THEN p.inclusion_groups.value
                            ELSE existing_groups(existing_inclusion)
        exclusion_users  == IF p.exclusion_users.present THEN p.exclusion_users.value
                            ELSE existing_users(existing_exclusion)
        exclusion_groups == IF p.exclusion_groups.present THEN p.exclusion_groups.value
                            ELSE existing_groups(existing_exclusion)
    IN  [ updated_request EXCEPT
            !.experimentSegmentInclusion =
                IF p.inclusion_users.present \/ p.inclusion_groups.present
                   \/ p.filter_mode.present
                THEN _create_experiment_segment(inclusion_users, inclusion_groups,
                                                <<>>, <<>>, TRUE)
                ELSE @,
            !.experimentSegmentExclusion =
                IF p.exclusion_users.present \/ p.exclusion_groups.present
                THEN _create_experiment_segment(<<>>, <<>>, exclusion_users,
                                                exclusion_groups, FALSE)
                ELSE @ ]

utils_apply_updates_to_experiment_request(base, p, next_id) ==
    LET simple     == _apply_simple_field_updates(base, p)
        cond       == _apply_conditions_update(simple, p, next_id)
        used       == IF p.conditions.present THEN Len(p.conditions.value) ELSE 0
        partitioned == IF p.decision_points.present
                       THEN [ cond.request EXCEPT
                                !.partitions = _create_partitions(p.decision_points.value,
                                                                  next_id + used) ]
                       ELSE cond.request
        segmented  == utils_apply_segments_update(partitioned, p)
    IN  _apply_post_experiment_rule_update(segmented, p, cond.condition_code_to_id)

\* C40: the request an action tool sends equals the request the functions of
\* src/utils/experiment_builders.py build from the same action_params and the
\* same fetched experiment, with the same ids handed out.
C40_BuilderCopiesAgree ==
    [][ (tool_pc' = "sent" /\ api_calls' = api_calls + 1) =>
          request' =
            IF op = "create"
            THEN utils_transform_to_create_experiment_request(tool_params, uuids)
            ELSE utils_apply_updates_to_experiment_request(
                     _convert_experiment_to_create_request(stored),
                     [ tool_params EXCEPT !.experiment_id.present = FALSE ], uuids) ]_vars

=============================================================================
